---- MODULE Spec2Model ----
(***************************************************************************)
(* Model of the expectation libraries of this repository:                   *)
(*   compare3 (Expression / Callable, src/compare3/Expression.py) and       *)
(*   compare  (Expr and its registered matchers, src/compare.py).           *)
(* A wrapper is a record; each accessor and matcher is an operator that     *)
(* is translated from its Python body; the actions apply them to the       *)
(* wrapper an expect(...) statement built.                                  *)
(***************************************************************************)
EXTENDS Integers, Sequences, FiniteSets, TLC

VARIABLES wrapper, operand, negated, affirmed, recent, calls, last, registry, writes

vars == <<wrapper, operand, negated, affirmed, recent, calls, last, registry, writes>>

(***************************************************************************)
(* Bounds of the model.                                                     *)
(***************************************************************************)
\* polarity accessors read on one wrapper
MaxReads == 2
\* invocations of the wrapped callable on one wrapper
MaxCalls == 2
\* matcher(obj) registrations in one process
MaxWrites == 2
\* wrappers built one after the other in one process
MaxWrappers == 2

(***************************************************************************)
(* Python values.  A value is a record [t, n, s, items]: t its type, n the  *)
(* number of an int or bool, or the tenths of a float; s the characters of  *)
(* a str (or the name of a function, or the one-character keys of a dict);  *)
(* items the integers of a list (or the values of a dict, key by key).      *)
(***************************************************************************)
None == [t |-> "NoneType", n |-> 0, s |-> <<>>, items |-> <<>>]
PyInt(n) == [t |-> "int", n |-> n, s |-> <<>>, items |-> <<>>]
PyBool(b) == [t |-> "bool", n |-> IF b THEN 1 ELSE 0, s |-> <<>>, items |-> <<>>]
PyFloat(tenths) == [t |-> "float", n |-> tenths, s |-> <<>>, items |-> <<>>]
PyStr(chars) == [t |-> "str", n |-> 0, s |-> chars, items |-> <<>>]
PyList(ns) == [t |-> "list", n |-> 0, s |-> <<>>, items |-> ns]
PyDict(keys, values) == [t |-> "dict", n |-> 0, s |-> keys, items |-> values]
PyFunction(name) == [t |-> "function", n |-> 0, s |-> <<name>>, items |-> <<>>]
\* functools.partial(f): a callable object, which has no __name__
PyPartial(name) == [t |-> "functools.partial", n |-> 0, s |-> <<name>>, items |-> <<>>]
\* callable(value)
callable(v) == v.t \in {"function", "functools.partial"}

\* the types numbers.Number accepts (bool is a subclass of int)
NumberTypes == {"int", "bool", "float"}

\* a number in tenths, so that ints and floats compare as Python compares them
Tenths(v) == IF v.t = "float" THEN v.n ELSE v.n * 10

\* characters in code point order
CodePoints == <<" ", "'", "+", "-", ".", "0", "1", "2", "3", "4", "5", "6", "7",
                "8", "9", "A", "B", "Z", "[", "]", "a", "b", "e", "f", "l", "o", "p", "s",
                "z">>
ord(c) == CHOOSE i \in 1..Len(CodePoints) : CodePoints[i] = c
DigitChars == <<"0", "1", "2", "3", "4", "5", "6", "7", "8", "9">>
IsDigit(c) == \E i \in 1..10 : DigitChars[i] = c
DigitValue(c) == (CHOOSE i \in 1..10 : DigitChars[i] = c) - 1
Letters == {"a", "b", "c", "d", "e", "f", "g", "h", "i", "j", "k", "l", "m",
            "n", "o", "p", "q", "r", "s", "t", "u", "v", "w", "x", "y", "z",
            "A", "B", "C", "D", "E", "F", "G", "H", "I", "J", "K", "L", "M",
            "N", "O", "P", "Q", "R", "S", "T", "U", "V", "W", "X", "Y", "Z"}
IsLetter(c) == c \in Letters

\* value == other
RECURSIVE SeqEq(_, _)
SeqEq(a, b) ==
    IF Len(a) # Len(b) THEN FALSE
    ELSE IF Len(a) = 0 THEN TRUE
    ELSE Head(a) = Head(b) /\ SeqEq(Tail(a), Tail(b))

PyEq(a, b) ==
    IF a.t \in NumberTypes /\ b.t \in NumberTypes THEN Tenths(a) = Tenths(b)
    ELSE IF a.t # b.t THEN FALSE
    ELSE IF a.t = "NoneType" THEN TRUE
    ELSE IF a.t = "list" THEN SeqEq(a.items, b.items)
    ELSE IF a.t = "dict" THEN a.s = b.s /\ a.items = b.items
    ELSE SeqEq(a.s, b.s)

\* bool(value)
bool(v) ==
    IF v.t \in NumberTypes THEN v.n # 0
    ELSE IF v.t = "NoneType" THEN FALSE
    ELSE IF v.t = "str" THEN Len(v.s) # 0
    ELSE IF v.t \in {"list", "dict"} THEN Len(v.items) # 0
    ELSE TRUE

(***************************************************************************)
(* Conversions.  An evaluation that can raise gives [exc, text, ...]: exc   *)
(* is "" when it completed, else the class of the exception it raised and   *)
(* text the exception's message.                                           *)
(***************************************************************************)
RECURSIVE DigitsOf(_)
DigitsOf(n) ==
    IF n < 10 THEN <<DigitChars[n + 1]>>
    ELSE Append(DigitsOf(n \div 10), DigitChars[(n % 10) + 1])

Abs(n) == IF n < 0 THEN -n ELSE n
SignOf(n) == IF n < 0 THEN <<"-">> ELSE <<>>

\* the items of a dict as repr shows them
RECURSIVE ReprItems(_, _)
ReprItems(keys, values) ==
    IF Len(keys) = 0 THEN <<>>
    ELSE <<"'", Head(keys), "'", ":", " ">> \o SignOf(Head(values))
         \o DigitsOf(Abs(Head(values)))
         \o (IF Len(keys) = 1 THEN <<>> ELSE <<",", " ">>)
         \o ReprItems(Tail(keys), Tail(values))

RECURSIVE ReprInts(_)
ReprInts(ns) ==
    IF Len(ns) = 0 THEN <<>>
    ELSE SignOf(Head(ns)) \o DigitsOf(Abs(Head(ns)))
         \o (IF Len(ns) = 1 THEN <<>> ELSE <<",", " ">>) \o ReprInts(Tail(ns))

\* str(value), as format() renders it too
str(v) ==
    IF v.t = "int" THEN SignOf(v.n) \o DigitsOf(Abs(v.n))
    ELSE IF v.t = "bool" THEN (IF v.n = 1 THEN <<"T", "r", "u", "e">>
                                         ELSE <<"F", "a", "l", "s", "e">>)
    ELSE IF v.t = "float" THEN SignOf(v.n) \o DigitsOf(Abs(v.n) \div 10)
                               \o <<".">> \o DigitsOf(Abs(v.n) % 10)
    ELSE IF v.t = "NoneType" THEN <<"N", "o", "n", "e">>
    ELSE IF v.t = "str" THEN v.s
    ELSE IF v.t = "list" THEN <<"[">> \o ReprInts(v.items) \o <<"]">>
    ELSE IF v.t = "dict" THEN <<"{">> \o ReprItems(v.s, v.items) \o <<"}">>
    ELSE IF v.t = "functools.partial"
         THEN <<"functools.partial(<function ">> \o v.s \o <<">)">>
    ELSE <<"<function ">> \o v.s \o <<">">>

\* the name a type shows in an error message
TypeName(v) == v.t

RECURSIVE Strip(_)
Strip(cs) ==
    IF Len(cs) = 0 THEN cs
    ELSE IF Head(cs) = " " THEN Strip(Tail(cs))
    ELSE IF cs[Len(cs)] = " " THEN Strip(SubSeq(cs, 1, Len(cs) - 1))
    ELSE cs

RECURSIVE AllDigits(_)
AllDigits(cs) == Len(cs) = 0 \/ (IsDigit(Head(cs)) /\ AllDigits(Tail(cs)))

RECURSIVE DigitsValue(_, _)
DigitsValue(cs, acc) ==
    IF Len(cs) = 0 THEN acc
    ELSE DigitsValue(Tail(cs), acc * 10 + DigitValue(Head(cs)))

\* the sign and the digits of a numeric literal: [neg, body]
Unsigned(cs) ==
    LET st == Strip(cs) IN
    IF Len(st) > 0 /\ Head(st) \in {"+", "-"}
    THEN [neg |-> Head(st) = "-", body |-> Tail(st)]
    ELSE [neg |-> FALSE, body |-> st]

\* int(value): a number truncates toward zero, a str parses as a decimal
\* integer literal (of the characters above), anything else is a TypeError
int(v) ==
    IF v.t \in {"int", "bool"} THEN [exc |-> "", text |-> <<>>, n |-> v.n]
    ELSE IF v.t = "float"
    THEN [exc |-> "", text |-> <<>>,
          n |-> IF v.n < 0 THEN -((-v.n) \div 10) ELSE v.n \div 10]
    ELSE IF v.t = "str"
    THEN LET u == Unsigned(v.s) IN
         IF Len(u.body) > 0 /\ AllDigits(u.body)
         THEN [exc |-> "", text |-> <<>>,
               n |-> IF u.neg THEN -DigitsValue(u.body, 0) ELSE DigitsValue(u.body, 0)]
         ELSE [exc |-> "ValueError",
               text |-> <<"invalid literal for ", "int() with base 10", ": ", "'">>
                        \o v.s \o <<"'">>,
               n |-> 0]
    ELSE [exc |-> "TypeError",
          text |-> <<"int() argument must be a string, a bytes-like object or a real number, not ",
                     "'", TypeName(v), "'">>,
          n |-> 0]

\* the position of the first "." of cs, or 0
DotAt(cs) ==
    IF \E i \in 1..Len(cs) : cs[i] = "."
    THEN CHOOSE i \in 1..Len(cs) : cs[i] = "." /\ \A j \in 1..(i - 1) : cs[j] # "."
    ELSE 0

\* float(value), in tenths: a str parses as digits with at most one "." and
\* at most one digit after it (the literals of the model)
float(v) ==
    IF v.t \in NumberTypes THEN [exc |-> "", text |-> <<>>, n |-> Tenths(v)]
    ELSE IF v.t = "str"
    THEN LET u == Unsigned(v.s)
             d == DotAt(u.body)
             whole == IF d = 0 THEN u.body ELSE SubSeq(u.body, 1, d - 1)
             frac == IF d = 0 THEN <<>> ELSE SubSeq(u.body, d + 1, Len(u.body))
             mag == DigitsValue(whole, 0) * 10 + DigitsValue(frac, 0)
         IN  IF Len(whole) + Len(frac) > 0 /\ Len(frac) <= 1
                /\ AllDigits(whole) /\ AllDigits(frac)
             THEN [exc |-> "", text |-> <<>>, n |-> IF u.neg THEN -mag ELSE mag]
             ELSE [exc |-> "ValueError",
                   text |-> <<"could not convert string to float", ": ", "'">>
                            \o v.s \o <<"'">>,
                   n |-> 0]
    ELSE [exc |-> "TypeError",
          text |-> <<"float() argument must be a string or a real number, not ",
                     "'", TypeName(v), "'">>,
          n |-> 0]

(***************************************************************************)
(* Ordering.  Numbers order by value, strs by code point, lists of ints     *)
(* item by item; any other pair raises TypeError.                          *)
(***************************************************************************)
RECURSIVE LexLess(_, _)
LexLess(a, b) ==
    IF Len(b) = 0 THEN FALSE
    ELSE IF Len(a) = 0 THEN TRUE
    ELSE IF Head(a) < Head(b) THEN TRUE
    ELSE IF Head(a) > Head(b) THEN FALSE
    ELSE LexLess(Tail(a), Tail(b))

Ords(cs) == [i \in 1..Len(cs) |-> ord(cs[i])]

Ordered(a, b) ==
    \/ a.t \in NumberTypes /\ b.t \in NumberTypes
    \/ a.t = b.t /\ a.t \in {"str", "list"}

NotOrdered(op, a, b) ==
    [exc |-> "TypeError",
     text |-> <<"'", op, "' not supported between instances of ",
                "'", TypeName(a), "'", " and ", "'", TypeName(b), "'">>,
     b |-> FALSE]

Less(a, b) ==
    IF a.t \in NumberTypes THEN Tenths(a) < Tenths(b)
    ELSE IF a.t = "str" THEN LexLess(Ords(a.s), Ords(b.s))
    ELSE LexLess(a.items, b.items)

\* value < other
PyLt(a, b) ==
    IF Ordered(a, b) THEN [exc |-> "", text |-> <<>>, b |-> Less(a, b)]
    ELSE NotOrdered("<", a, b)

\* value <= other
PyLe(a, b) ==
    IF Ordered(a, b) THEN [exc |-> "", text |-> <<>>, b |-> ~Less(b, a)]
    ELSE NotOrdered("<=", a, b)

\* value > other
PyGt(a, b) ==
    IF Ordered(a, b) THEN [exc |-> "", text |-> <<>>, b |-> Less(b, a)]
    ELSE NotOrdered(">", a, b)

\* value >= other
PyGe(a, b) ==
    IF Ordered(a, b) THEN [exc |-> "", text |-> <<>>, b |-> ~Less(a, b)]
    ELSE NotOrdered(">=", a, b)

(***************************************************************************)
(* compare3: the error type, the wrapper and the evaluation primitive.      *)
(* A call on a wrapper gives [obj, exc, msg, ret]: obj is the wrapper as    *)
(* the call leaves it; exc is "" when the call returned, else the class of  *)
(* the exception that left it, and msg that exception's message; ret is     *)
(* the set of ids of the object returned ({} for None); invoked counts the  *)
(* invocations of the wrapped callable the call made.                      *)
(***************************************************************************)
UnmetExpectation == "UnmetExpectation"

Return(self) ==
    [obj |-> self, exc |-> "", msg |-> <<>>, ret |-> {self.id}, invoked |-> 0]
ReturnNone(self) ==
    [obj |-> self, exc |-> "", msg |-> <<>>, ret |-> {}, invoked |-> 0]
Raise(self, cls, message) ==
    [obj |-> self, exc |-> cls, msg |-> message, ret |-> {}, invoked |-> 0]

\* the logger of the class: logging.Logger("expressions") has no handler and
\* no parent, so a line of level 10 is dropped; a subclass may bind a logger
\* that keeps the line or one whose log() raises
Loggers == {"Logger", "keeping", "raising"}

\* Expression.__init__
Expression(id, value) ==
    [id |-> id, cls |-> "Expression", logger |-> "Logger",
     _determinant |-> TRUE, value |-> value, args |-> <<>>, kwargs |-> <<>>]

\* _ensure without its negated branch
_ensure_affirmative_only(self, expression, value_to_match, message) ==
    IF expression # value_to_match
    THEN Raise(self, UnmetExpectation, message)
    ELSE Return(self)

\* _ensure putting the polarity back to affirmative once it has used it
_ensure_resetting(self, expression, value_to_match, message) ==
    LET used == [self EXCEPT !._determinant = TRUE] IN
    IF (expression = value_to_match) = self._determinant
    THEN Return(used)
    ELSE Raise(used, UnmetExpectation, message)

\* Expression._ensure
_ensure(self, expression, value_to_match, message) ==
    IF self._determinant
    THEN IF expression # value_to_match
         THEN Raise(self, UnmetExpectation, message)
         ELSE Return(self)
    ELSE IF expression = value_to_match
         THEN Raise(self, UnmetExpectation, message)
         ELSE Return(self)

\* Expression._message
_message(self, expected, actual, msg_type) ==
    <<"'">> \o str(expected) \o <<"' is ">>
    \o (IF self._determinant THEN <<"not ">> ELSE <<>>)
    \o <<msg_type, " '">> \o str(actual) \o <<"'">>

\* Expression.log: the logger's answer to log(comparison_log_level, msg)
log(self, msg) ==
    IF self.logger = "raising"
    THEN [exc |-> "LoggerError", text |-> <<"log() failed">>]
    ELSE [exc |-> "", text |-> <<>>]

\* the statements after self.log(...): reached only when log returned
AfterLog(self, l, rest) == IF l.exc # "" THEN Raise(self, l.exc, l.text) ELSE rest

\* the polarity words of the log lines and of the messages
NotIf(self) == IF self._determinant THEN <<" not">> ELSE <<>>
Seems(self) == IF self._determinant THEN <<"doesn't seem">> ELSE <<"seems">>

\* Expression.is_
is_(self) == Return([self EXCEPT !._determinant = TRUE])

\* is_not_ flipping the polarity instead of setting it
is_not_toggling(self) == Return([self EXCEPT !._determinant = ~self._determinant])

\* Expression.is_not_
is_not_(self) == Return([self EXCEPT !._determinant = FALSE])

\* and_ returning the wrapper with the polarity it has
and__keeping_polarity(self) == Return(self)

\* Expression.and_
and_(self) == Return([self EXCEPT !._determinant = TRUE])

(***************************************************************************)
(* compare3: the matchers of Expression.                                    *)
(***************************************************************************)
\* equal_to raising on unequal values whatever the polarity
equal_to_affirmative_only(self, value) ==
    AfterLog(self,
        log(self, <<"checking if '">> \o str(self.value) \o <<"'">> \o NotIf(self)
                  \o <<" equal_to '">> \o str(value) \o <<"'">>),
        IF PyEq(self.value, value) THEN Return(self)
        ELSE Raise(self, UnmetExpectation, _message(self, self.value, value, "equal to")))

\* Expression.equal_to
equal_to(self, value) ==
    AfterLog(self,
        log(self, <<"checking if '">> \o str(self.value) \o <<"'">> \o NotIf(self)
                  \o <<" equal_to '">> \o str(value) \o <<"'">>),
        _ensure(self, PyEq(self.value, value), TRUE,
                _message(self, self.value, value, "equal to")))

\* equal_to_as_strings keeping the converted subject in the wrapper
equal_to_as_strings_converting(self, value) ==
    _ensure([self EXCEPT !.value = PyStr(str(self.value))],
            SeqEq(str(self.value), str(value)), TRUE,
            _message(self, self.value, value, "equal to"))

\* Expression.equal_to_as_strings
equal_to_as_strings(self, value) ==
    AfterLog(self,
        log(self, <<"checking if '">> \o str(self.value) \o <<"'">> \o NotIf(self)
                  \o <<" equal_to_as_strings '">> \o str(value) \o <<"'">>),
        _ensure(self, SeqEq(str(self.value), str(value)), TRUE,
                _message(self, self.value, value, "equal to")))

\* equal_to_as_integer reporting a value that does not convert as unequal
equal_to_as_integer_swallowing(self, value) ==
    AfterLog(self,
        log(self, <<"checking if '">> \o str(self.value) \o <<"'">> \o NotIf(self)
                  \o <<" equal_to_as_integer '">> \o str(value) \o <<"'">>),
        LET a == int(self.value)
            b == int(value)
        IN  IF a.exc # "" \/ b.exc # ""
            THEN _ensure(self, FALSE, TRUE, _message(self, self.value, value, "equal to"))
            ELSE _ensure(self, a.n = b.n, TRUE,
                         _message(self, PyInt(a.n), PyInt(b.n), "equal to")))

\* Expression.equal_to_as_integer
equal_to_as_integer(self, value) ==
    AfterLog(self,
        log(self, <<"checking if '">> \o str(self.value) \o <<"'">> \o NotIf(self)
                  \o <<" equal_to_as_integer '">> \o str(value) \o <<"'">>),
        LET a == int(self.value)
            b == int(value)
        IN  IF a.exc # "" THEN Raise(self, a.exc, a.text)
            ELSE IF b.exc # "" THEN Raise(self, b.exc, b.text)
            ELSE _ensure(self, a.n = b.n, TRUE,
                         _message(self, PyInt(a.n), PyInt(b.n), "equal to")))

\* Expression.equal_to_as_floating_point
equal_to_as_floating_point(self, value) ==
    AfterLog(self,
        log(self, <<"checking if '">> \o str(self.value) \o <<"'">> \o NotIf(self)
                  \o <<" equal_to_as_floating_point '">> \o str(value) \o <<"'">>),
        LET a == float(self.value)
            b == float(value)
        IN  IF a.exc # "" THEN Raise(self, a.exc, a.text)
            ELSE IF b.exc # "" THEN Raise(self, b.exc, b.text)
            ELSE _ensure(self, a.n = b.n, TRUE,
                         _message(self, PyFloat(a.n), PyFloat(b.n), "equal to")))

\* an ordering matcher that takes a comparison that raised for a false one
Compared_downgrading(self, c, value, msg_type) ==
    _ensure(self, c.exc = "" /\ c.b, TRUE, _message(self, self.value, value, msg_type))

\* an ordering matcher: the comparison may raise before _ensure is reached
Compared(self, c, value, msg_type) ==
    IF c.exc # "" THEN Raise(self, c.exc, c.text)
    ELSE _ensure(self, c.b, TRUE, _message(self, self.value, value, msg_type))

\* Expression.greater_than
greater_than(self, value) ==
    AfterLog(self,
        log(self, <<"checking if '">> \o str(self.value) \o <<"'">> \o NotIf(self)
                  \o <<" greater_than '">> \o str(value) \o <<"'">>),
        Compared(self, PyGt(self.value, value), value, "greater than"))

\* Expression.greater_than_or_equal_to
greater_than_or_equal_to(self, value) ==
    AfterLog(self,
        log(self, <<"checking if '">> \o str(self.value) \o <<"'">> \o NotIf(self)
                  \o <<" greater_than_or_equal_to '">> \o str(value) \o <<"'">>),
        Compared(self, PyGe(self.value, value), value, "greater than or equal to"))

\* less_than matching against the polarity, as to_equal of compare does, on top
\* of the polarity test of _ensure
less_than_matching_polarity(self, value) ==
    LET c == PyLt(self.value, value) IN
    IF c.exc # "" THEN Raise(self, c.exc, c.text)
    ELSE _ensure(self, c.b, self._determinant,
                 _message(self, self.value, value, "less than"))

\* Expression.less_than
less_than(self, value) ==
    AfterLog(self,
        log(self, <<"checking if '">> \o str(self.value) \o <<"'">> \o NotIf(self)
                  \o <<" less_than '">> \o str(value) \o <<"'">>),
        Compared(self, PyLt(self.value, value), value, "less than"))

\* Expression.less_than_or_equal_to
less_than_or_equal_to(self, value) ==
    AfterLog(self,
        log(self, <<"checking if '">> \o str(self.value) \o <<"'">> \o NotIf(self)
                  \o <<" less_than_or_equal_to '">> \o str(value) \o <<"'">>),
        Compared(self, PyLe(self.value, value), value, "less than or equal to"))

\* Expression.none
none(self) ==
    AfterLog(self,
        log(self, <<"checking if '">> \o str(self.value) \o <<"' is">> \o NotIf(self)
                  \o <<" None">>),
        _ensure(self, self.value.t = "NoneType", TRUE,
                str(self.value) \o <<" is">> \o NotIf(self) \o <<" None">>))

\* Expression.truthy
truthy(self) ==
    AfterLog(self,
        log(self, <<"checking if '">> \o str(self.value) \o <<"' is">> \o NotIf(self)
                  \o <<" truthy">>),
        _ensure(self, bool(self.value), TRUE,
                str(self.value) \o <<" ">> \o Seems(self) \o <<" truthy">>))

\* falsy matching bool(self.value) against True, as truthy does
falsy_as_truthy(self) ==
    AfterLog(self,
        log(self, <<"checking if '">> \o str(self.value) \o <<"' is">> \o NotIf(self)
                  \o <<" falsy">>),
        _ensure(self, bool(self.value), TRUE,
                str(self.value) \o <<" ">> \o Seems(self) \o <<" falsy">>))

\* Expression.falsy
falsy(self) ==
    AfterLog(self,
        log(self, <<"checking if '">> \o str(self.value) \o <<"' is">> \o NotIf(self)
                  \o <<" falsy">>),
        _ensure(self, bool(self.value), FALSE,
                str(self.value) \o <<" ">> \o Seems(self) \o <<" falsy">>))

\* value in self.value: a substring of a str, an item of a list, a key of a
\* dict (a list or a dict is unhashable and cannot be looked up as a key)
IsSubstring(sub, cs) ==
    \E i \in 0..(Len(cs) - Len(sub)) : SeqEq(SubSeq(cs, i + 1, i + Len(sub)), sub)

PyIn(value, container) ==
    IF container.t = "str"
    THEN IF value.t = "str"
         THEN [exc |-> "", text |-> <<>>, b |-> IsSubstring(value.s, container.s)]
         ELSE [exc |-> "TypeError",
               text |-> <<"'in <string>' requires string as left operand, not ",
                          TypeName(value)>>,
               b |-> FALSE]
    ELSE IF container.t = "list"
    THEN [exc |-> "", text |-> <<>>,
          b |-> \E i \in 1..Len(container.items) : PyEq(PyInt(container.items[i]), value)]
    ELSE IF container.t = "dict"
    THEN IF value.t \in {"list", "dict"}
         THEN [exc |-> "TypeError",
               text |-> <<"unhashable type: ", "'", TypeName(value), "'">>,
               b |-> FALSE]
         ELSE [exc |-> "", text |-> <<>>,
               b |-> \E i \in 1..Len(container.s) :
                        PyEq(PyStr(<<container.s[i]>>), value)]
    ELSE [exc |-> "TypeError",
          text |-> <<"argument of type ", "'", TypeName(container), "'", " is not iterable">>,
          b |-> FALSE]

\* Expression.contains
contains(self, value) ==
    AfterLog(self,
        log(self, <<"checking if '">> \o str(value) \o <<"' is">> \o NotIf(self)
                  \o <<" in '">> \o str(self.value) \o <<"'">>),
        LET c == PyIn(value, self.value)
        IN  IF c.exc # "" THEN Raise(self, c.exc, c.text)
            ELSE _ensure(self, c.b, TRUE,
                         str(self.value) \o <<" was">> \o NotIf(self) \o <<" in ">>
                         \o str(value)))

\* Expression.numeric
numeric(self) ==
    AfterLog(self,
        log(self, <<"checking if '">> \o str(self.value) \o <<"' is">> \o NotIf(self)
                  \o <<" numeric">>),
        _ensure(self, self.value.t \in NumberTypes, TRUE,
                str(self.value) \o <<" ">> \o Seems(self) \o <<" numeric">>))

\* re.fullmatch("[a-zA-Z]*", value) and re.fullmatch("[a-zA-Z0-9]*", value)
RECURSIVE AllIn(_, _)
AllIn(cs, digitsToo) ==
    \/ Len(cs) = 0
    \/ /\ IsLetter(Head(cs)) \/ (digitsToo /\ IsDigit(Head(cs)))
       /\ AllIn(Tail(cs), digitsToo)

FullMatchClass(value, digitsToo) ==
    IF value.t = "str"
    THEN [exc |-> "", text |-> <<>>, b |-> AllIn(value.s, digitsToo)]
    ELSE [exc |-> "TypeError",
          text |-> <<"expected string or bytes-like object, got ", "'", TypeName(value), "'">>,
          b |-> FALSE]

\* Expression.alphabetical
alphabetical(self) ==
    AfterLog(self,
        log(self, <<"checking if '">> \o str(self.value) \o <<"' is">> \o NotIf(self)
                  \o <<" alphabetical">>),
        LET m == FullMatchClass(self.value, FALSE)
        IN  IF m.exc # "" THEN Raise(self, m.exc, m.text)
            ELSE _ensure(self, m.b, TRUE,
                         str(self.value) \o <<" ">> \o Seems(self) \o <<" alphabetical">>))

\* Expression.alphanumeric
alphanumeric(self) ==
    AfterLog(self,
        log(self, <<"checking if '">> \o str(self.value) \o <<"' is">> \o NotIf(self)
                  \o <<" alphanumeric">>),
        LET m == FullMatchClass(self.value, TRUE)
        IN  IF m.exc # "" THEN Raise(self, m.exc, m.text)
            ELSE _ensure(self, m.b, TRUE,
                         str(self.value) \o <<" ">> \o Seems(self) \o <<" alphabetical">>))

\* a method that calls a matcher and drops what it returns
Dropped(r) == IF r.exc # "" THEN r ELSE [r EXCEPT !.ret = {}]

\* Expression.__eq__
__eq__(self, other) == Dropped(equal_to(self, other))

\* __lt__ calling the matcher of <= instead of that of <
__lt___calling_le(self, other) == Dropped(less_than_or_equal_to(self, other))

\* Expression.__lt__
__lt__(self, other) == Dropped(less_than(self, other))

\* Expression.__le__
__le__(self, other) == Dropped(less_than_or_equal_to(self, other))

\* Expression.__gt__
__gt__(self, other) == Dropped(greater_than(self, other))

\* Expression.__ge__
__ge__(self, other) == Dropped(greater_than_or_equal_to(self, other))

(***************************************************************************)
(* compare3: the callable wrapper.  The callables of the model are summer   *)
(* of main.py, called with the arguments the wrapper captured.              *)
(***************************************************************************)
\* summer(*args): sum([int(i) for i in args]); the first int() that raises
\* ends the call, and a keyword argument is a TypeError
RECURSIVE SumInts(_, _)
SumInts(args, acc) ==
    IF Len(args) = 0 THEN [exc |-> "", text |-> <<>>, val |-> PyInt(acc)]
    ELSE LET i == int(Head(args))
         IN  IF i.exc # "" THEN [exc |-> i.exc, text |-> i.text, val |-> None]
             ELSE SumInts(Tail(args), acc + i.n)

summer(args, kwargs) ==
    IF Len(kwargs) > 0
    THEN [exc |-> "TypeError",
          text |-> <<"summer() got an unexpected keyword argument ", "'", kwargs[1][1], "'">>,
          val |-> None]
    ELSE SumInts(args, 0)

\* self.value(*self.args, **self.kwargs)
Invoke(self) ==
    IF callable(self.value) /\ self.value.s = <<"summer">>
    THEN summer(self.args, self.kwargs)
    ELSE [exc |-> "TypeError",
          text |-> <<"'", TypeName(self.value), "'", " object is not callable">>,
          val |-> None]

\* self.value.__name__
NameOf(self) ==
    IF self.value.t = "function"
    THEN [exc |-> "", text |-> self.value.s]
    ELSE [exc |-> "AttributeError",
          text |-> <<"'", TypeName(self.value), "'", " object has no attribute ", "'__name__'">>]

\* isinstance(e, exception_type), for the exception classes of the model
ExceptionTypes == {"Exception", "ValueError", "TypeError"}
isinstance(e, exception_type) == exception_type = "Exception" \/ e.exc = exception_type

\* re.fullmatch(pattern, text) is not None, for patterns of literal pieces and ".*"
RECURSIVE fullmatch(_, _)
fullmatch(pattern, text) ==
    IF Len(pattern) = 0 THEN Len(text) = 0
    ELSE IF Head(pattern) = ".*"
    THEN \E k \in 0..Len(text) : fullmatch(Tail(pattern), SubSeq(text, k + 1, Len(text)))
    ELSE /\ Len(text) > 0
         /\ Head(text) = Head(pattern)
         /\ fullmatch(Tail(pattern), Tail(text))

\* Callable.__init__
Callable(id, expect, args, kwargs) ==
    [Expression(id, expect) EXCEPT !.cls = "Callable", !.args = args, !.kwargs = kwargs]

\* a call that invoked the wrapped callable once
Invoked(r) == IF callable(r.obj.value) THEN [r EXCEPT !.invoked = 1] ELSE r

\* Callable.returns
returns(self, expected) ==
    LET name == NameOf(self) IN
    IF name.exc # "" THEN Raise(self, name.exc, name.text)
    ELSE
    AfterLog(self,
        log(self, <<"Calling ">> \o name.text \o <<" with args and kwargs">>),
        LET call == Invoke(self) IN
        IF call.exc # "" THEN Invoked(Raise(self, call.exc, call.text))
        ELSE Invoked(
            AfterLog(self,
                log(self, <<"checking if return: ">> \o str(call.val) \o <<" is">>
                          \o NotIf(self) \o <<" equal to ">> \o str(expected)),
                LET r == _ensure(self, PyEq(call.val, expected), TRUE,
                                 str(self.value)
                                 \o (IF self._determinant THEN <<" did not ">> ELSE <<" ">>)
                                 \o <<"return ">> \o str(expected) \o <<", it returned ">>
                                 \o str(call.val) \o <<" instead">>)
                IN  IF r.exc # "" THEN r ELSE ReturnNone(r.obj))))

\* the except clause without the check of the message against the pattern
Caught_ignoring_pattern(self, e, exception_type, exception_message) ==
    LET name == NameOf(self)
        first == _ensure(self, isinstance(e, exception_type), TRUE,
                         name.text
                         \o (IF self._determinant THEN <<" did not ">> ELSE <<" ">>)
                         \o <<"raise type, it returned ", e.exc, " instead">>)
    IN  IF name.exc # "" THEN Raise(self, name.exc, name.text)
        ELSE IF first.exc # "" THEN first
        ELSE ReturnNone(first.obj)

\* Callable.raises: the body of the except clause, e the exception caught
Caught(self, e, exception_type, exception_message) ==
    LET name == NameOf(self)
        first == _ensure(self, isinstance(e, exception_type), TRUE,
                         name.text
                         \o (IF self._determinant THEN <<" did not ">> ELSE <<" ">>)
                         \o <<"raise type, it returned ", e.exc, " instead">>)
    IN  IF name.exc # "" THEN Raise(self, name.exc, name.text)
        ELSE IF first.exc # "" THEN first
        ELSE IF exception_message.t = "NoneType" THEN ReturnNone(first.obj)
        ELSE AfterLog(first.obj,
                 log(first.obj, <<"checking ">> \o name.text \o <<" expecting exception class ">>
                                \o <<exception_type>>),
                 LET second == _ensure(first.obj, fullmatch(exception_message.s, e.text), TRUE,
                                       _message(first.obj, exception_message, PyStr(e.text),
                                                "match pattern"))
                 IN  IF second.exc # "" THEN second ELSE ReturnNone(second.obj))

\* Callable.raises
raises(self, exception_type, exception_message) ==
    LET name == NameOf(self)
        l == IF name.exc # "" THEN name
             ELSE log(self, <<"Calling ">> \o name.text \o <<" expecting exception class ">>
                            \o <<exception_type>>)
        call == Invoke(self)
    IN  IF l.exc # ""
        THEN \* raised inside the try block, before the callable is invoked
             Caught(self, l, exception_type, exception_message)
        ELSE IF call.exc # ""
        THEN Invoked(Caught(self, [exc |-> call.exc, text |-> call.text],
                            exception_type, exception_message))
        ELSE Invoked(Raise(self, UnmetExpectation,
                           <<"call '">> \o name.text \o <<"' did not raise 'type' error">>))

(***************************************************************************)
(* compare: Expr, its NOT accessor, ensure and the matchers the module      *)
(* registers on Expr.  A matcher is called with its optional hint and      *)
(* fail_message left at None.                                              *)
(***************************************************************************)
\* Expr.__init__
Expr(id, expr, args, kwargs) ==
    [id |-> id, cls |-> "Expr", logger |-> "none",
     _determinant |-> TRUE, value |-> expr, args |-> args, kwargs |-> kwargs]

\* NOT flipping the determinant instead of clearing it
NOT_toggling(self) == Return([self EXCEPT !._determinant = ~self._determinant])

\* Expr.NOT
NOT(self) == Return([self EXCEPT !._determinant = FALSE])

\* ensure
ensure(context, expr, outcome, message) ==
    IF expr # outcome THEN Raise(context, UnmetExpectation, message)
    ELSE ReturnNone(context)

\* %r of a value
repr(v) == IF v.t = "str" THEN <<"'">> \o v.s \o <<"'">> ELSE str(v)

\* the "not " of the messages of to_equal and to_be
Negate(context) == IF context._determinant THEN <<>> ELSE <<"not ">>

\* to_equal
to_equal(context, other) ==
    ensure(context, PyEq(context.value, other), context._determinant,
           <<"Expected ">> \o repr(context.value) \o <<" ">> \o Negate(context)
           \o <<"to equal ">> \o repr(other))

\* value is other: None, bools and the small ints are one object each; of any
\* other type the caller passes the subject itself (same) or another object
PyIs(a, b, same) ==
    IF a.t \in {"NoneType", "bool", "int"} THEN a = b
    ELSE same /\ a = b

\* to_be
to_be(context, other, same) ==
    ensure(context, PyIs(context.value, other, same), context._determinant,
           <<"Expected ">> \o repr(context.value) \o <<" ">> \o Negate(context)
           \o <<"to be ">> \o repr(other))

\* an ordering matcher of compare: the comparison may raise before ensure
Ensured(context, c, other, words) ==
    IF c.exc # "" THEN Raise(context, c.exc, c.text)
    ELSE ensure(context, c.b, TRUE,
                <<"Expected ">> \o repr(context.value) \o <<words>> \o repr(other))

\* to_be_less_than
to_be_less_than(context, other) ==
    Ensured(context, PyLt(context.value, other), other, " to be less than ")

\* to_be_less_than_or_equal_to
to_be_less_than_or_equal_to(context, other) ==
    Ensured(context, PyLe(context.value, other), other, " to be less than or equal to ")

\* to_be_greater_than
to_be_greater_than(context, other) ==
    Ensured(context, PyGt(context.value, other), other, " to be greater than ")

\* to_be_greater_than_or_equal_to
to_be_greater_than_or_equal_to(context, other) ==
    Ensured(context, PyGe(context.value, other), other, " to be greater than or equal to ")

\* to_be_none
to_be_none(context) ==
    ensure(context, context.value.t = "NoneType", TRUE,
           <<"Expected ">> \o repr(context.value) \o <<" to be None">>)

\* to_be_truthy
to_be_truthy(context) ==
    ensure(context, bool(context.value), TRUE,
           <<"Expected ">> \o repr(context.value) \o <<" to be truthy">>)

\* to_be_falsy
to_be_falsy(context) ==
    ensure(context, ~bool(context.value), TRUE,
           <<"Expected ">> \o repr(context.value) \o <<" to be falsy">>)

\* to_contain
to_contain(context, other) ==
    Ensured(context, PyIn(other, context.value), other, " to contain ")

\* to_return
to_return(context, expected) ==
    LET call == Invoke(context) IN
    IF call.exc # "" THEN Invoked(Raise(context, call.exc, call.text))
    ELSE Invoked(ensure(context, PyEq(call.val, expected), TRUE,
                        <<"Expected callable to return ">> \o repr(expected)
                        \o <<" but got ">> \o repr(call.val)))

\* to_raise: exception_class is "" and exception_message is None when not given;
\* an exception has no attribute "message"
to_raise(context, exception_class, exception_message) ==
    LET call == Invoke(context)
        raised == call.exc # ""
        isinst == raised /\ isinstance(call, exception_class)
    IN  Invoked(
        IF exception_class # "" /\ bool(exception_message)
        THEN IF isinst
             THEN Raise(context, "AttributeError",
                        <<"'", call.exc, "'", " object has no attribute ", "'message'">>)
             ELSE ensure(context, FALSE, TRUE,
                         <<"Expected callable to raise ", exception_class, "(">>
                         \o repr(exception_message) \o <<") \n  but got ", call.exc>>)
        ELSE IF exception_class # ""
        THEN ensure(context, isinst, TRUE,
                    <<"Expected callable to raise ", exception_class, "() but got ", call.exc>>)
        ELSE ensure(context, raised, TRUE, <<"Expected callable to raise an exception">>))

(***************************************************************************)
(* compare: the registry.  matcher(obj) binds obj under obj.__name__ on     *)
(* Expr; a call of a name on a wrapper runs the function bound to it.       *)
(* A call is described by [m, other, flag, match, cls]: the name called,    *)
(* its argument, the exception class of to_raise and raises, and two       *)
(* booleans: flag is whether the argument of to_be is the subject itself,  *)
(* and flag and match are the expression and value_to_match of _ensure.    *)
(***************************************************************************)
BaseMatchers == {"to_equal", "to_be", "to_be_less_than", "to_be_less_than_or_equal_to",
                 "to_be_greater_than", "to_be_greater_than_or_equal_to", "to_be_none",
                 "to_be_truthy", "to_be_falsy", "to_contain", "to_return", "to_raise"}
RichMatchers == {"__eq__", "__lt__", "__le__", "__gt__", "__ge__"}

\* the attributes the @matcher lines of the module leave on Expr
Registered == [name \in BaseMatchers \cup RichMatchers |-> name]

Call(m, other, flag, cls) ==
    [m |-> m, other |-> other, flag |-> flag, match |-> TRUE, cls |-> cls]
EnsureCall(expression, value_to_match, message) ==
    [m |-> "_ensure", other |-> PyStr(message), flag |-> expression,
     match |-> value_to_match, cls |-> ""]

\* functions a program registers: the to_equal_foo and the to_equal of the
\* documentation of matcher (an assert each), and a function named value
UserFunctions == {"to_equal_foo", "documented_to_equal", "function_named_value"}

\* obj.__name__
__name__(obj) ==
    CASE obj = "documented_to_equal" -> "to_equal"
      [] obj = "function_named_value" -> "value"
      [] OTHER -> obj

\* matcher(obj) keeping no attribute but the one it sets
matcher_replacing_all(attrs, obj) == [name \in {__name__(obj)} |-> obj]

\* matcher(obj): setattr(expect, obj.__name__, obj), on the attributes attrs
matcher(attrs, obj) ==
    [name \in DOMAIN attrs \cup {__name__(obj)} |->
        IF name = __name__(obj) THEN obj ELSE attrs[name]]

\* def to_equal_foo(context): assert context.value == "foo"
to_equal_foo(context) ==
    IF PyEq(context.value, PyStr(<<"f", "o", "o">>)) THEN ReturnNone(context)
    ELSE Raise(context, "AssertionError", <<>>)

\* def to_equal(context, other):
\*     assert context.value == other, "Expected '%s' to equal '%s'" % (...)
documented_to_equal(context, other) ==
    IF PyEq(context.value, other) THEN ReturnNone(context)
    ELSE Raise(context, "AssertionError",
               <<"Expected '">> \o str(context.value) \o <<"' to equal '">>
               \o str(other) \o <<"'">>)

\* def value(context): a matcher whose name is that of an instance attribute
function_named_value(context) == ReturnNone(context)

\* the attributes Expr.__init__ sets on the instance
InstanceAttributes == {"_determinant", "value", "args", "kwargs"}

\* context.<name>: the instance's own attribute if it has one of that name,
\* else the attribute of the class, else AttributeError
getattr(context, name) ==
    IF name \in InstanceAttributes THEN [found |-> "instance", fn |-> ""]
    ELSE IF name \in DOMAIN registry THEN [found |-> "class", fn |-> registry[name]]
    ELSE [found |-> "", fn |-> ""]

\* context.<name>(other) where <name> is an instance attribute: the subject
\* is called if it is callable, anything else is not callable
CallInstanceAttribute(context, name, c) ==
    IF name = "value" /\ callable(context.value)
    THEN LET call == Invoke([context EXCEPT !.args = <<c.other>>, !.kwargs = <<>>]) IN
         Invoked(IF call.exc # "" THEN Raise(context, call.exc, call.text)
                 ELSE ReturnNone(context))
    ELSE Raise(context, "TypeError",
               <<"'", CASE name = "value" -> TypeName(context.value)
                        [] name = "_determinant" -> "bool"
                        [] name = "args" -> "tuple"
                        [] name = "kwargs" -> "dict",
                 "'", " object is not callable">>)

\* context.<name> when neither the instance nor the class has the attribute
NoAttribute(context, name) ==
    Raise(context, "AttributeError", <<"'Expr' object has no attribute ", "'", name, "'">>)

\* the function fn applied to a wrapper; a rich comparison matcher calls the
\* attribute of the base matcher's name and returns None
RECURSIVE ApplyExpr(_, _, _)
Attr(context, name, c) ==
    LET a == getattr(context, name) IN
    IF a.found = "class" THEN ApplyExpr(a.fn, context, c)
    ELSE IF a.found = "instance" THEN CallInstanceAttribute(context, name, c)
    ELSE NoAttribute(context, name)

ApplyExpr(fn, context, c) ==
    CASE fn = "to_equal" -> to_equal(context, c.other)
      [] fn = "to_be" -> to_be(context, c.other, c.flag)
      [] fn = "to_be_less_than" -> to_be_less_than(context, c.other)
      [] fn = "to_be_less_than_or_equal_to" -> to_be_less_than_or_equal_to(context, c.other)
      [] fn = "to_be_greater_than" -> to_be_greater_than(context, c.other)
      [] fn = "to_be_greater_than_or_equal_to" ->
             to_be_greater_than_or_equal_to(context, c.other)
      [] fn = "to_be_none" -> to_be_none(context)
      [] fn = "to_be_truthy" -> to_be_truthy(context)
      [] fn = "to_be_falsy" -> to_be_falsy(context)
      [] fn = "to_contain" -> to_contain(context, c.other)
      [] fn = "to_return" -> to_return(context, c.other)
      [] fn = "to_raise" -> to_raise(context, c.cls, c.other)
      [] fn = "to_equal_foo" -> to_equal_foo(context)
      [] fn = "documented_to_equal" -> documented_to_equal(context, c.other)
      [] fn = "function_named_value" -> function_named_value(context)
      [] fn = "__eq__" -> Dropped(Attr(context, "to_equal", c))
      [] fn = "__lt__" -> Dropped(Attr(context, "to_be_less_than", c))
      [] fn = "__le__" -> Dropped(Attr(context, "to_be_less_than_or_equal_to", c))
      [] fn = "__gt__" -> Dropped(Attr(context, "to_be_greater_than", c))
      [] fn = "__ge__" -> Dropped(Attr(context, "to_be_greater_than_or_equal_to", c))

\* a method of Expression or Callable applied to a wrapper
Apply(self, c) ==
    CASE c.m = "_ensure" -> _ensure(self, c.flag, c.match, c.other.s)
      [] c.m = "is_" -> is_(self)
      [] c.m = "is_not_" -> is_not_(self)
      [] c.m = "and_" -> and_(self)
      [] c.m = "equal_to" -> equal_to(self, c.other)
      [] c.m = "equal_to_as_strings" -> equal_to_as_strings(self, c.other)
      [] c.m = "equal_to_as_integer" -> equal_to_as_integer(self, c.other)
      [] c.m = "equal_to_as_floating_point" -> equal_to_as_floating_point(self, c.other)
      [] c.m = "greater_than" -> greater_than(self, c.other)
      [] c.m = "greater_than_or_equal_to" -> greater_than_or_equal_to(self, c.other)
      [] c.m = "less_than" -> less_than(self, c.other)
      [] c.m = "less_than_or_equal_to" -> less_than_or_equal_to(self, c.other)
      [] c.m = "contains" -> contains(self, c.other)
      [] c.m = "__eq__" -> __eq__(self, c.other)
      [] c.m = "__lt__" -> __lt__(self, c.other)
      [] c.m = "__le__" -> __le__(self, c.other)
      [] c.m = "__gt__" -> __gt__(self, c.other)
      [] c.m = "__ge__" -> __ge__(self, c.other)
      [] c.m = "none" -> none(self)
      [] c.m = "truthy" -> truthy(self)
      [] c.m = "falsy" -> falsy(self)
      [] c.m = "numeric" -> numeric(self)
      [] c.m = "alphabetical" -> alphabetical(self)
      [] c.m = "alphanumeric" -> alphanumeric(self)
      [] c.m = "returns" -> returns(self, c.other)
      [] c.m = "raises" -> raises(self, c.cls, c.other)

\* a call on a wrapper of either library
Result(self, c) ==
    IF self.cls = "Expr"
    THEN IF c.m = "NOT" THEN NOT(self) ELSE Attr(self, c.m, c)
    ELSE Apply(self, c)

(***************************************************************************)
(* The values, arguments and patterns the statements are drawn from.        *)
(***************************************************************************)
Values == {None, PyBool(FALSE),
           PyInt(0), PyInt(1), PyInt(20),
           PyFloat(205),
           PyStr(<<>>), PyStr(<<"a">>), PyStr(<<"2", "0">>), PyStr(<<"2", "0", ".", "5">>),
           PyList(<<>>), PyList(<<1, 20>>), PyDict(<<"a">>, <<1>>)}

\* the argument lists a callable is wrapped with: summer returns 20 on the
\* first, raises ValueError on the second and TypeError on the third
ArgLists == {<<PyStr(<<"2", "0">>), PyInt(0)>>,
             <<PyInt(1), PyStr(<<"a">>)>>,
             <<None>>}

Functions == {PyFunction("summer"), PyPartial("summer")}

\* the values a callable's result is compared with
Expected == {PyInt(20), PyStr(<<"2", "0">>), None}

\* exception_message: not given, or a pattern
Patterns == {None,
             PyStr(<<"invalid literal for ", ".*", " ", "'", "a", "'">>),
             PyStr(<<"invalid literal for ">>),
             PyStr(<<".*", "'", "a">>)}

(***************************************************************************)
(* The state of one expect(...) statement: the wrapper it built; the value  *)
(* it passes to the matchers; how often it read a negating (is_not_, NOT)   *)
(* and an affirming (is_, and_) accessor, and the polarity the most recent  *)
(* of them stands for (affirmative when none was read); how often it       *)
(* invoked the wrapped callable; its most recent call, with the wrapper as *)
(* it was before the call and what the call gave; the attributes           *)
(* registered on Expr; and the functions matcher() was called with, in     *)
(* the order of the calls.                                                 *)
(***************************************************************************)
Init ==
    /\ \/ \E v \in Values : wrapper = Expression(1, v) /\ operand \in Values
       \/ \E f \in Functions, a \in ArgLists :
             wrapper = Callable(1, f, a, <<>>) /\ operand \in Expected
       \/ \E v \in Values : wrapper = Expr(1, v, <<>>, <<>>) /\ operand \in Values
       \/ \E f \in Functions, a \in ArgLists :
             wrapper = Expr(1, f, a, <<>>) /\ operand \in Expected
    /\ negated = 0
    /\ affirmed = 0
    /\ recent = TRUE
    /\ calls = 0
    /\ last = [c |-> Call("__init__", None, FALSE, ""), before |-> wrapper,
               res |-> Return(wrapper)]
    /\ registry = Registered
    /\ writes = <<>>

IsCompare3 == wrapper.cls \in {"Expression", "Callable"}
IsExpr == wrapper.cls = "Expr"

\* reading a polarity accessor
Read(c, r) ==
    /\ negated + affirmed < MaxReads
    /\ wrapper' = r.obj
    /\ last' = [c |-> c, before |-> wrapper, res |-> r]
    /\ IF c.m \in {"is_not_", "NOT"}
       THEN negated' = negated + 1 /\ recent' = FALSE /\ UNCHANGED affirmed
       ELSE affirmed' = affirmed + 1 /\ recent' = TRUE /\ UNCHANGED negated
    /\ UNCHANGED <<operand, calls, registry, writes>>

\* calling a method
Do(c, r) ==
    /\ calls + r.invoked <= MaxCalls
    /\ wrapper' = r.obj
    /\ calls' = calls + r.invoked
    /\ last' = [c |-> c, before |-> wrapper, res |-> r]
    /\ UNCHANGED <<operand, negated, affirmed, recent, registry, writes>>

\* wrapper.<name> is the function fn, an attribute of the class
Bound(name, fn) == getattr(wrapper, name) = [found |-> "class", fn |-> fn]

Read_is_ == IsCompare3 /\ Read(Call("is_", None, FALSE, ""), is_(wrapper))
Read_is_not_ == IsCompare3 /\ Read(Call("is_not_", None, FALSE, ""), is_not_(wrapper))
Read_and_ == IsCompare3 /\ Read(Call("and_", None, FALSE, ""), and_(wrapper))
Read_NOT == IsExpr /\ Read(Call("NOT", None, FALSE, ""), NOT(wrapper))

Call__ensure ==
    /\ IsCompare3
    /\ \E e \in BOOLEAN, v \in BOOLEAN : 
          Do(EnsureCall(e, v, str(operand)), _ensure(wrapper, e, v, str(operand)))

Call_equal_to == IsCompare3 /\ Do(Call("equal_to", operand, FALSE, ""), equal_to(wrapper, operand))
Call_equal_to_as_strings == IsCompare3 /\ Do(Call("equal_to_as_strings", operand, FALSE, ""), equal_to_as_strings(wrapper, operand))
Call_equal_to_as_integer == IsCompare3 /\ Do(Call("equal_to_as_integer", operand, FALSE, ""), equal_to_as_integer(wrapper, operand))
Call_equal_to_as_floating_point == IsCompare3 /\ Do(Call("equal_to_as_floating_point", operand, FALSE, ""), equal_to_as_floating_point(wrapper, operand))
Call_greater_than == IsCompare3 /\ Do(Call("greater_than", operand, FALSE, ""), greater_than(wrapper, operand))
Call_greater_than_or_equal_to == IsCompare3 /\ Do(Call("greater_than_or_equal_to", operand, FALSE, ""), greater_than_or_equal_to(wrapper, operand))
Call_less_than == IsCompare3 /\ Do(Call("less_than", operand, FALSE, ""), less_than(wrapper, operand))
Call_less_than_or_equal_to == IsCompare3 /\ Do(Call("less_than_or_equal_to", operand, FALSE, ""), less_than_or_equal_to(wrapper, operand))
Call_contains == IsCompare3 /\ Do(Call("contains", operand, FALSE, ""), contains(wrapper, operand))
Call___eq__ == IsCompare3 /\ Do(Call("__eq__", operand, FALSE, ""), __eq__(wrapper, operand))
Call___lt__ == IsCompare3 /\ Do(Call("__lt__", operand, FALSE, ""), __lt__(wrapper, operand))
Call___le__ == IsCompare3 /\ Do(Call("__le__", operand, FALSE, ""), __le__(wrapper, operand))
Call___gt__ == IsCompare3 /\ Do(Call("__gt__", operand, FALSE, ""), __gt__(wrapper, operand))
Call___ge__ == IsCompare3 /\ Do(Call("__ge__", operand, FALSE, ""), __ge__(wrapper, operand))
Call_none == IsCompare3 /\ Do(Call("none", None, FALSE, ""), none(wrapper))
Call_truthy == IsCompare3 /\ Do(Call("truthy", None, FALSE, ""), truthy(wrapper))
Call_falsy == IsCompare3 /\ Do(Call("falsy", None, FALSE, ""), falsy(wrapper))
Call_numeric == IsCompare3 /\ Do(Call("numeric", None, FALSE, ""), numeric(wrapper))
Call_alphabetical == IsCompare3 /\ Do(Call("alphabetical", None, FALSE, ""), alphabetical(wrapper))
Call_alphanumeric == IsCompare3 /\ Do(Call("alphanumeric", None, FALSE, ""), alphanumeric(wrapper))
Call_returns == wrapper.cls = "Callable" /\ Do(Call("returns", operand, FALSE, ""), returns(wrapper, operand))
Call_raises ==
    /\ wrapper.cls = "Callable"
    /\ \E t \in ExceptionTypes, p \in Patterns : 
          Do(Call("raises", p, FALSE, t), raises(wrapper, t, p))

Expr_to_equal ==
    /\ IsExpr
    /\ Do(Call("to_equal", operand, FALSE, ""),
          IF Bound("to_equal", "documented_to_equal")
          THEN documented_to_equal(wrapper, operand)
          ELSE to_equal(wrapper, operand))
Expr_to_be_less_than ==
    /\ IsExpr
    /\ Bound("to_be_less_than", "to_be_less_than")
    /\ Do(Call("to_be_less_than", operand, FALSE, ""), to_be_less_than(wrapper, operand))
Expr_to_be_less_than_or_equal_to ==
    /\ IsExpr
    /\ Bound("to_be_less_than_or_equal_to", "to_be_less_than_or_equal_to")
    /\ Do(Call("to_be_less_than_or_equal_to", operand, FALSE, ""), to_be_less_than_or_equal_to(wrapper, operand))
Expr_to_be_greater_than ==
    /\ IsExpr
    /\ Bound("to_be_greater_than", "to_be_greater_than")
    /\ Do(Call("to_be_greater_than", operand, FALSE, ""), to_be_greater_than(wrapper, operand))
Expr_to_be_greater_than_or_equal_to ==
    /\ IsExpr
    /\ Bound("to_be_greater_than_or_equal_to", "to_be_greater_than_or_equal_to")
    /\ Do(Call("to_be_greater_than_or_equal_to", operand, FALSE, ""), to_be_greater_than_or_equal_to(wrapper, operand))
Expr_to_contain ==
    /\ IsExpr
    /\ Bound("to_contain", "to_contain")
    /\ Do(Call("to_contain", operand, FALSE, ""), to_contain(wrapper, operand))
Expr_to_return ==
    /\ IsExpr
    /\ Bound("to_return", "to_return")
    /\ Do(Call("to_return", operand, FALSE, ""), to_return(wrapper, operand))
Expr___eq__ ==
    /\ IsExpr
    /\ Bound("__eq__", "__eq__")
    /\ Do(Call("__eq__", operand, FALSE, ""),
          Dropped(IF Bound("to_equal", "documented_to_equal")
                  THEN documented_to_equal(wrapper, operand)
                  ELSE to_equal(wrapper, operand)))
Expr___lt__ ==
    /\ IsExpr
    /\ Bound("__lt__", "__lt__") /\ Bound("to_be_less_than", "to_be_less_than")
    /\ Do(Call("__lt__", operand, FALSE, ""), Dropped(to_be_less_than(wrapper, operand)))
Expr___le__ ==
    /\ IsExpr
    /\ Bound("__le__", "__le__") /\ Bound("to_be_less_than_or_equal_to", "to_be_less_than_or_equal_to")
    /\ Do(Call("__le__", operand, FALSE, ""), Dropped(to_be_less_than_or_equal_to(wrapper, operand)))
Expr___gt__ ==
    /\ IsExpr
    /\ Bound("__gt__", "__gt__") /\ Bound("to_be_greater_than", "to_be_greater_than")
    /\ Do(Call("__gt__", operand, FALSE, ""), Dropped(to_be_greater_than(wrapper, operand)))
Expr___ge__ ==
    /\ IsExpr
    /\ Bound("__ge__", "__ge__") /\ Bound("to_be_greater_than_or_equal_to", "to_be_greater_than_or_equal_to")
    /\ Do(Call("__ge__", operand, FALSE, ""), Dropped(to_be_greater_than_or_equal_to(wrapper, operand)))
Expr_to_be_none ==
    /\ IsExpr
    /\ Bound("to_be_none", "to_be_none")
    /\ Do(Call("to_be_none", None, FALSE, ""), to_be_none(wrapper))
Expr_to_be_truthy ==
    /\ IsExpr
    /\ Bound("to_be_truthy", "to_be_truthy")
    /\ Do(Call("to_be_truthy", None, FALSE, ""), to_be_truthy(wrapper))
Expr_to_be_falsy ==
    /\ IsExpr
    /\ Bound("to_be_falsy", "to_be_falsy")
    /\ Do(Call("to_be_falsy", None, FALSE, ""), to_be_falsy(wrapper))
Expr_to_be ==
    /\ IsExpr
    /\ Bound("to_be", "to_be")
    /\ \E same \in BOOLEAN :
          /\ same => operand = wrapper.value
          /\ Do(Call("to_be", operand, same, ""), to_be(wrapper, operand, same))
Expr_to_raise ==
    /\ IsExpr
    /\ Bound("to_raise", "to_raise")
    /\ \E t \in ExceptionTypes \cup {""}, p \in Patterns :
          Do(Call("to_raise", p, FALSE, t), to_raise(wrapper, t, p))

Next ==
    \/ Read_is_ \/ Read_is_not_ \/ Read_and_ \/ Read_NOT
    \/ Call__ensure
    \/ Call_equal_to \/ Call_equal_to_as_strings \/ Call_equal_to_as_integer
    \/ Call_equal_to_as_floating_point \/ Call_greater_than
    \/ Call_greater_than_or_equal_to \/ Call_less_than \/ Call_less_than_or_equal_to
    \/ Call_contains \/ Call___eq__ \/ Call___lt__ \/ Call___le__ \/ Call___gt__
    \/ Call___ge__ \/ Call_none \/ Call_truthy \/ Call_falsy \/ Call_numeric
    \/ Call_alphabetical \/ Call_alphanumeric \/ Call_returns \/ Call_raises
    \/ Expr_to_equal \/ Expr_to_be_less_than \/ Expr_to_be_less_than_or_equal_to
    \/ Expr_to_be_greater_than \/ Expr_to_be_greater_than_or_equal_to \/ Expr_to_contain
    \/ Expr_to_return \/ Expr___eq__ \/ Expr___lt__ \/ Expr___le__ \/ Expr___gt__
    \/ Expr___ge__ \/ Expr_to_be_none \/ Expr_to_be_truthy \/ Expr_to_be_falsy
    \/ Expr_to_be \/ Expr_to_raise

Spec == Init /\ [][Next]_vars

(***************************************************************************)
(* Expectations of a subclass of Expression or Callable that binds its own  *)
(* logger: one that keeps the lines, one that drops them, one whose log()   *)
(* raises.                                                                 *)
(***************************************************************************)
LoggingSubjects == {None, PyInt(20), PyStr(<<"a">>)}

InitLogging ==
    /\ \E l \in Loggers :
          \/ \E v \in LoggingSubjects : wrapper = [Expression(1, v) EXCEPT !.logger = l]
          \/ \E f \in Functions, a \in ArgLists :
                wrapper = [Callable(1, f, a, <<>>) EXCEPT !.logger = l]
    /\ operand \in Expected
    /\ negated = 0
    /\ affirmed = 0
    /\ recent = TRUE
    /\ calls = 0
    /\ last = [c |-> Call("__init__", None, FALSE, ""), before |-> wrapper,
               res |-> Return(wrapper)]
    /\ registry = Registered
    /\ writes = <<>>

NextLogging ==
    \/ Read_is_ \/ Read_is_not_ \/ Read_and_
    \/ Call__ensure
    \/ Call_equal_to \/ Call_equal_to_as_strings \/ Call_equal_to_as_integer
    \/ Call_equal_to_as_floating_point \/ Call_greater_than
    \/ Call_greater_than_or_equal_to \/ Call_less_than \/ Call_less_than_or_equal_to
    \/ Call_contains \/ Call___eq__ \/ Call___lt__ \/ Call___le__ \/ Call___gt__
    \/ Call___ge__ \/ Call_none \/ Call_truthy \/ Call_falsy \/ Call_numeric
    \/ Call_alphabetical \/ Call_alphanumeric \/ Call_returns \/ Call_raises

SpecLogging == InitLogging /\ [][NextLogging]_vars

(***************************************************************************)
(* A process that registers matchers: it builds wrappers one after the      *)
(* other, registers functions on Expr in between, and calls equality and    *)
(* ordering through the operators and by name.                              *)
(***************************************************************************)
RegistrySubjects == {PyInt(1), PyInt(20), PyStr(<<"f", "o", "o">>)}

InitRegistry ==
    /\ \E v \in RegistrySubjects :
          wrapper = Expr(1, v, <<>>, <<>>) \/ wrapper = Expression(1, v)
    /\ operand \in RegistrySubjects
    /\ negated = 0
    /\ affirmed = 0
    /\ recent = TRUE
    /\ calls = 0
    /\ last = [c |-> Call("__init__", None, FALSE, ""), before |-> wrapper,
               res |-> Return(wrapper)]
    /\ registry = Registered
    /\ writes = <<>>

\* matcher(obj), at any point of the process
Call_matcher ==
    /\ IsExpr
    /\ Len(writes) < MaxWrites
    /\ \E obj \in UserFunctions \cup {"to_equal"} :
          /\ registry' = matcher(registry, obj)
          /\ writes' = Append(writes, obj)
          /\ last' = [c |-> Call("matcher", PyFunction(obj), FALSE, ""),
                      before |-> wrapper, res |-> ReturnNone(wrapper)]
    /\ UNCHANGED <<wrapper, operand, negated, affirmed, recent, calls>>

\* expect(...) once more: a wrapper built after what the process did so far
New(w) ==
    /\ wrapper.id < MaxWrappers
    /\ wrapper' = w
    /\ negated' = 0
    /\ affirmed' = 0
    /\ recent' = TRUE
    /\ calls' = 0
    /\ last' = [c |-> Call("__init__", None, FALSE, ""), before |-> w, res |-> Return(w)]
    /\ UNCHANGED <<operand, registry, writes>>

New_Expr == IsExpr /\ New(Expr(wrapper.id + 1, wrapper.value, <<>>, <<>>))
New_Expression == IsCompare3 /\ New(Expression(wrapper.id + 1, wrapper.value))

Expr_to_equal_foo ==
    /\ IsExpr
    /\ Do(Call("to_equal_foo", None, FALSE, ""),
          IF Bound("to_equal_foo", "to_equal_foo") THEN to_equal_foo(wrapper)
          ELSE NoAttribute(wrapper, "to_equal_foo"))
Expr_value ==
    /\ IsExpr
    /\ getattr(wrapper, "value").found = "instance"
    /\ LET c == Call("value", None, FALSE, "") IN
          Do(c, CallInstanceAttribute(wrapper, c.m, c))

NextRegistry ==
    \/ Call_matcher \/ New_Expr \/ New_Expression
    \/ Read_NOT \/ Read_is_not_
    \/ Expr_to_equal \/ Expr_to_be_less_than \/ Expr_to_be_less_than_or_equal_to
    \/ Expr_to_be_greater_than \/ Expr_to_be_greater_than_or_equal_to
    \/ Expr___eq__ \/ Expr___lt__ \/ Expr___le__ \/ Expr___gt__ \/ Expr___ge__
    \/ Expr_to_equal_foo \/ Expr_value
    \/ Call_equal_to \/ Call_less_than \/ Call_less_than_or_equal_to
    \/ Call_greater_than \/ Call_greater_than_or_equal_to
    \/ Call___eq__ \/ Call___lt__ \/ Call___le__ \/ Call___gt__ \/ Call___ge__

SpecRegistry == InitRegistry /\ [][NextRegistry]_vars

(***************************************************************************)
(* Properties.                                                              *)
(***************************************************************************)
Accessors == {"is_", "is_not_", "and_", "NOT"}

\* the matchers of Expression
Matchers == {"equal_to", "equal_to_as_strings", "equal_to_as_integer",
             "equal_to_as_floating_point", "greater_than", "greater_than_or_equal_to",
             "less_than", "less_than_or_equal_to", "none", "truthy", "falsy",
             "contains", "numeric", "alphabetical", "alphanumeric"}

Passed(r) == r.exc = ""
Unmet(r) == r.exc = UnmetExpectation
Decided(r) == Passed(r) \/ Unmet(r)

\* the wrapper before the most recent call, under the other polarity
Flipped == [last.before EXCEPT !._determinant = ~last.before._determinant]

\* C1: _ensure(expression, value_to_match, message) returns the wrapper it was
\* called on exactly when (expression == value_to_match) equals the polarity,
\* and otherwise raises UnmetExpectation carrying the given message
C1_EnsureContract ==
    last.c.m = "_ensure" =>
        IF (last.c.flag = last.c.match) = last.before._determinant
        THEN /\ Passed(last.res)
             /\ last.res.ret = {last.before.id}
             /\ wrapper = last.before
        ELSE /\ Unmet(last.res)
             /\ last.res.msg = last.c.other.s
             /\ last.res.ret = {}

\* a negated _ensure that returned the wrapper because expression and
\* value_to_match differ
C1_Witness ==
    /\ last.c.m = "_ensure"
    /\ ~last.before._determinant
    /\ last.c.flag # last.c.match
    /\ Passed(last.res)

\* C2: for every matcher of Expression and for Callable.returns, whenever the
\* predicate evaluates without error, the call under one polarity raises
\* UnmetExpectation exactly when the same call under the other polarity passes
C2_NegationInverts ==
    (last.c.m \in Matchers \cup {"returns"} /\ Decided(last.res)) =>
        LET flipped == Result(Flipped, last.c) IN
        /\ Passed(last.res) <=> Unmet(flipped)
        /\ Unmet(last.res) <=> Passed(flipped)

\* falsy passing under negation, on a subject on which affirmative falsy raises
C2_Witness ==
    /\ last.c.m = "falsy"
    /\ ~last.before._determinant
    /\ Passed(last.res)
    /\ Unmet(Result(Flipped, last.c))

\* the predicate a base matcher of compare documents, for a call that
\* evaluates it without error
ExprPredicate(context, c) ==
    LET call == Invoke(context) IN
    CASE c.m = "to_equal" -> PyEq(context.value, c.other)
      [] c.m = "to_be" -> PyIs(context.value, c.other, c.flag)
      [] c.m = "to_be_less_than" -> PyLt(context.value, c.other).b
      [] c.m = "to_be_less_than_or_equal_to" -> PyLe(context.value, c.other).b
      [] c.m = "to_be_greater_than" -> PyGt(context.value, c.other).b
      [] c.m = "to_be_greater_than_or_equal_to" -> PyGe(context.value, c.other).b
      [] c.m = "to_be_none" -> context.value.t = "NoneType"
      [] c.m = "to_be_truthy" -> bool(context.value)
      [] c.m = "to_be_falsy" -> ~bool(context.value)
      [] c.m = "to_contain" -> PyIn(c.other, context.value).b
      [] c.m = "to_return" -> PyEq(call.val, c.other)
      [] c.m = "to_raise" -> call.exc # "" /\ (c.cls = "" \/ isinstance(call, c.cls))

\* C3: every base matcher of compare validates against the determinant: it
\* passes iff its predicate is true while the determinant is True, and iff its
\* predicate is false after NOT
C3_DeterminantGovernsAll ==
    (last.c.m \in BaseMatchers /\ Decided(last.res)) =>
        (Passed(last.res) <=> (ExprPredicate(last.before, last.c) = last.before._determinant))

\* C4: the polarity is affirmative after construction and, in every state, is
\* what the most recent accessor set; a method call that is no accessor leaves
\* it as it was, whether it passes or raises
C4_PolarityInvariant ==
    /\ wrapper._determinant = recent
    /\ last.c.m = "__init__" => wrapper._determinant
    /\ last.c.m \notin Accessors => wrapper._determinant = last.before._determinant

\* a matcher that raised UnmetExpectation on a negated wrapper
C4_Witness ==
    /\ last.c.m \in Matchers \cup {"returns", "raises"} \cup BaseMatchers
    /\ Unmet(last.res)
    /\ negated > 0
    /\ ~recent

\* C5: is_ and is_not_ set the polarity to True and False, return the wrapper
\* they were read from and change nothing else of it; reading one again leaves
\* the wrapper as the first read left it, and the last accessor read decides
C5_AccessorsSetPolarity ==
    last.c.m \in {"is_", "is_not_"} =>
        /\ Passed(last.res)
        /\ last.res.ret = {last.before.id}
        /\ wrapper = [last.before EXCEPT !._determinant = (last.c.m = "is_")]
        /\ Result(wrapper, last.c).obj = wrapper
        /\ (last.before._determinant = (last.c.m = "is_")) => wrapper = last.before

\* is_not_ read a second time in a row
C5_Witness ==
    /\ last.c.m = "is_not_"
    /\ negated = 2
    /\ ~last.before._determinant
    /\ ~wrapper._determinant

\* every matcher of the three wrapper classes
AllMatchers == Matchers \cup {"returns", "raises"} \cup BaseMatchers

\* the wrapper as its constructor built it, and the read of its negating accessor
Fresh(w) ==
    CASE w.cls = "Expression" -> Expression(w.id, w.value)
      [] w.cls = "Callable" -> Callable(w.id, w.value, w.args, w.kwargs)
      [] w.cls = "Expr" -> Expr(w.id, w.value, w.args, w.kwargs)

NegatedOnce(w) ==
    Result(Fresh(w), Call(IF w.cls = "Expr" THEN "NOT" ELSE "is_not_", None, FALSE, "")).obj

\* a matcher called on a wrapper whose negating accessor was read twice and
\* whose affirming accessors were never read
NegatedTwice == negated = 2 /\ affirmed = 0 /\ last.c.m \in AllMatchers

\* C6 (as stated): a matcher called after negating a fresh wrapper twice ends as
\* the same call on a fresh wrapper that was never negated
C6_NegationInvolutive ==
    NegatedTwice => last.res.exc = Result(Fresh(last.before), last.c).exc

\* C6 (amended): a matcher called after negating a fresh wrapper twice ends as
\* the same call after negating a fresh wrapper once, with the same message
C6_NegationIdempotent ==
    NegatedTwice =>
        LET once == Result(NegatedOnce(last.before), last.c) IN
        /\ last.res.exc = once.exc
        /\ last.res.msg = once.msg
        /\ last.res.ret = once.ret

\* equal_to raising after two negations where the un-negated call passes
C6_Witness ==
    /\ NegatedTwice
    /\ last.c.m \in {"equal_to", "to_equal"}
    /\ Unmet(last.res)
    /\ Passed(Result(Fresh(last.before), last.c))
    /\ Unmet(Result(NegatedOnce(last.before), last.c))

\* C7: a matcher of Expression or Callable, returns and raises included, that
\* ends without a hard error either returns the wrapper it was called on or
\* raises UnmetExpectation with a message
C7_MatchersReturnWrapper ==
    (last.c.m \in Matchers \cup {"returns", "raises"} /\ Decided(last.res)) =>
        IF Passed(last.res)
        THEN last.res.ret = {last.before.id}
        ELSE Len(last.res.msg) > 0

\* C8: equal_to called with the subject itself passes and returns the wrapper
\* under affirmative polarity and raises UnmetExpectation under negated
\* polarity; to_equal passes and raises likewise
C8_EqualToReflexive ==
    (last.c.m \in {"equal_to", "to_equal"} /\ last.c.other = last.before.value) =>
        IF last.before._determinant
        THEN /\ Passed(last.res)
             /\ last.c.m = "equal_to" => last.res.ret = {last.before.id}
        ELSE Unmet(last.res)

\* expect(v).is_not_.equal_to(v) raising
C8_Witness ==
    /\ last.c.m = "equal_to"
    /\ last.c.other = last.before.value
    /\ negated = 1 /\ affirmed = 0
    /\ Unmet(last.res)

\* the conversion a coercing matcher applies to both sides
Converted(m, v) == IF m = "equal_to_as_integer" THEN int(v) ELSE float(v)

\* C9: when subject and argument both convert, equal_to_as_integer and
\* equal_to_as_floating_point pass iff equality of the converted values agrees
\* with the polarity, and end the same way with subject and argument swapped;
\* when one does not convert, the call raises that conversion's ValueError or
\* TypeError under either polarity, neither passing nor raising UnmetExpectation
C9_CoercionSymmetric ==
    last.c.m \in {"equal_to_as_integer", "equal_to_as_floating_point"} =>
        LET a == Converted(last.c.m, last.before.value)
            b == Converted(last.c.m, last.c.other)
            swapped == Result([last.before EXCEPT !.value = last.c.other],
                              [last.c EXCEPT !.other = last.before.value])
        IN  IF a.exc = "" /\ b.exc = ""
            THEN /\ Decided(last.res)
                 /\ Passed(last.res) <=> ((a.n = b.n) = last.before._determinant)
                 /\ swapped.exc = last.res.exc
            ELSE /\ last.res.exc \in {"ValueError", "TypeError"}
                 /\ last.res.exc = (IF a.exc # "" THEN a.exc ELSE b.exc)
                 /\ last.res.ret = {}
                 /\ Result(Flipped, last.c).exc = last.res.exc

\* expect("20.5").is_not_.equal_to_as_integer(20) raising ValueError
C9_Witness ==
    /\ last.c.m = "equal_to_as_integer"
    /\ ~last.before._determinant
    /\ last.before.value = PyStr(<<"2", "0", ".", "5">>)
    /\ last.c.other = PyInt(20)
    /\ last.res.exc = "ValueError"

\* the subjects the statement names as falsy
CanonicalFalsy == {None, PyBool(FALSE), PyInt(0), PyStr(<<>>), PyList(<<>>)}

\* the other matcher of the pair truthy / falsy
Complement(m) ==
    CASE m = "truthy" -> "falsy"
      [] m = "falsy" -> "truthy"
      [] m = "to_be_truthy" -> "to_be_falsy"
      [] m = "to_be_falsy" -> "to_be_truthy"

\* C10: on every subject and under each polarity, of truthy and falsy one
\* passes and the other raises UnmetExpectation; under affirmative polarity
\* falsy passes exactly on 0, "", None, False and the empty list
C10_TruthyFalsyComplements ==
    last.c.m \in {"truthy", "falsy", "to_be_truthy", "to_be_falsy"} =>
        LET other == Result(last.before, [last.c EXCEPT !.m = Complement(last.c.m)])
            falsy_passed == IF last.c.m \in {"falsy", "to_be_falsy"}
                            THEN Passed(last.res) ELSE Passed(other)
        IN  /\ Decided(last.res) /\ Decided(other)
            /\ Passed(last.res) <=> Unmet(other)
            /\ last.before._determinant =>
                   (falsy_passed <=> last.before.value \in CanonicalFalsy)

\* expect("").falsy() passing while expect("").truthy() raises
C10_Witness ==
    /\ last.c.m = "falsy"
    /\ last.before._determinant
    /\ last.before.value = PyStr(<<>>)
    /\ Passed(last.res)
    /\ Unmet(Result(last.before, [last.c EXCEPT !.m = "truthy"]))

\* C11: contains (to_contain in compare), whenever the membership test is
\* defined, passes under affirmative polarity iff the argument is a member of
\* the subject (an item of a list, a substring of a str, a key of a dict) and
\* under negated polarity iff it is not; otherwise it raises UnmetExpectation
C11_ContainsMembership ==
    (last.c.m \in {"contains", "to_contain"} /\ Decided(last.res)) =>
        (Passed(last.res) <=>
            (PyIn(last.c.other, last.before.value).b = last.before._determinant))

\* the registrations made under a name, and the function the name is bound to
\* after them: the last one registered, or the one bound at import
WritesOf(name) == {i \in 1..Len(writes) : __name__(writes[i]) = name}
LastWritten(name) == writes[CHOOSE i \in WritesOf(name) : \A j \in WritesOf(name) : j <= i]
CurrentlyBound(name) ==
    IF WritesOf(name) # {} THEN LastWritten(name) ELSE Registered[name]

\* the named matcher behind an operator
NamedMatcher(op, cls) ==
    CASE op = "__eq__" -> IF cls = "Expr" THEN "to_equal" ELSE "equal_to"
      [] op = "__lt__" -> IF cls = "Expr" THEN "to_be_less_than" ELSE "less_than"
      [] op = "__le__" -> IF cls = "Expr" THEN "to_be_less_than_or_equal_to"
                          ELSE "less_than_or_equal_to"
      [] op = "__gt__" -> IF cls = "Expr" THEN "to_be_greater_than" ELSE "greater_than"
      [] op = "__ge__" -> IF cls = "Expr" THEN "to_be_greater_than_or_equal_to"
                          ELSE "greater_than_or_equal_to"

C14_LastWriterWins ==
    \A i \in 1..Len(writes) :
        getattr(wrapper, __name__(writes[i]))
            = [found |-> "class", fn |-> LastWritten(__name__(writes[i]))]

\* a name that neither a matcher nor an attribute of the wrapper uses
Unused(name) == name \notin DOMAIN Registered /\ name \notin InstanceAttributes

\* C15: registering under a name not used before leaves every name that was
\* not registered again bound as it was, leaves the wrapper (subject and
\* polarity) as it was, and makes the function callable on the wrapper,
\* built before or after the registration; without the registration the
\* name is no attribute of the wrapper
C15_RegistrationFrame ==
    /\ \A name \in DOMAIN Registered :
          WritesOf(name) = {} =>
              getattr(wrapper, name) = [found |-> "class", fn |-> Registered[name]]
    /\ last.c.m = "matcher" => wrapper = last.before
    /\ (last.c.m = "to_equal_foo" /\ Unused(last.c.m)) =>
          IF WritesOf("to_equal_foo") # {}
          THEN last.res = to_equal_foo(last.before)
          ELSE last.res.exc = "AttributeError"

\* expect("foo").to_equal_foo() passing on a wrapper built before
\* to_equal_foo was registered, to_equal being bound as at import
C15_Witness ==
    /\ last.c.m = "to_equal_foo"
    /\ last.before.id = 1
    /\ writes = <<"to_equal_foo">>
    /\ Passed(last.res)
    /\ getattr(wrapper, "to_equal") = [found |-> "class", fn |-> "to_equal"]

\* C13: a matcher ends the same way, and invokes the wrapped callable as
\* often, with the logger the wrapper is bound to (keeping the line, dropping
\* it, or raising) as with the logger that drops the line
C13_LoggingNonFunctional ==
    last.c.m \in Matchers \cup {"returns", "raises"} =>
        LET dropped == Result([last.before EXCEPT !.logger = "Logger"], last.c) IN
        /\ last.res.exc = dropped.exc
        /\ last.res.invoked = dropped.invoked

\* the matchers that invoke the wrapped callable
Invoking == {"returns", "raises", "to_return"}

\* C16: constructing the wrapper and reading an accessor leave the wrapped
\* callable uninvoked; each call of returns, raises or to_return on a wrapper
\* of a callable invokes it exactly once more, with the arguments captured at
\* construction: an error of summer on those arguments is what returns and
\* to_return raise, and its result on them is what returns compares.
C16_InvokedExactlyOnce ==
    /\ [](last.c.m = "__init__" => calls = 0)
    /\ [][LET m == last'.c.m
              call == summer(wrapper.args, wrapper.kwargs)
          IN  /\ m \in Accessors => calls' = calls
              /\ (m \in Invoking /\ callable(wrapper.value)) =>
                    /\ calls' = calls + 1
                    /\ last'.res.invoked = 1
                    /\ (m \in {"returns", "to_return"} /\ call.exc # "") =>
                          (last'.res.exc = call.exc /\ last'.res.msg = call.text)
                    /\ (m = "returns" /\ call.exc = "") =>
                          (Passed(last'.res)
                              <=> (PyEq(call.val, last'.c.other) = wrapper._determinant))
         ]_vars

Evaluation(self, c) ==
    CASE c.m = "greater_than" -> PyGt(self.value, c.other)
      [] c.m = "greater_than_or_equal_to" -> PyGe(self.value, c.other)
      [] c.m = "less_than" -> PyLt(self.value, c.other)
      [] c.m = "less_than_or_equal_to" -> PyLe(self.value, c.other)
      [] c.m = "contains" -> PyIn(c.other, self.value)
      [] c.m = "alphabetical" -> FullMatchClass(self.value, FALSE)
      [] c.m = "alphanumeric" -> FullMatchClass(self.value, TRUE)
      [] c.m = "returns" /\ self.value.t = "function" -> summer(self.args, self.kwargs)
      [] OTHER -> [exc |-> "", text |-> <<>>]

\* C18: when the evaluation of an ordering matcher, of contains, of
\* alphabetical or alphanumeric, or the callable of returns raises, the
\* matcher raises that same exception with the same text, under the polarity
\* it was called with and under the other one; it neither passes nor raises
\* UnmetExpectation.
C18_HardErrorsPropagate ==
    LET e == Evaluation(last.before, last.c)
        flipped == Result(Flipped, last.c)
    IN  e.exc # "" =>
            /\ last.res.exc = e.exc /\ last.res.msg = e.text
            /\ flipped.exc = e.exc /\ flipped.msg = e.text
            /\ ~Decided(last.res) /\ ~Decided(flipped)

\* C18 witness: less_than under negated polarity on values that have no
\* order, ended by the TypeError of the comparison
C18_Witness ==
    /\ last.c.m = "less_than"
    /\ ~last.before._determinant
    /\ ~Ordered(last.before.value, last.c.other)
    /\ last.res.exc = "TypeError"

\* C19: a matcher of Expression leaves the subject, and the whole wrapper, as
\* it found them, and the same matcher called again with the same argument,
\* once more and then a third time, ends as the first call did: the same
\* exception or none, and the same message.
C19_MatchersRepeatable ==
    last.c.m \in Matchers =>
        LET second == Result(wrapper, last.c)
            third == Result(second.obj, last.c)
        IN  /\ wrapper.value = last.before.value
            /\ wrapper = last.before
            /\ second.exc = last.res.exc /\ second.msg = last.res.msg
            /\ third.exc = last.res.exc /\ third.msg = last.res.msg

\* C19 witness: equal_to_as_strings("20") passed on the int 20 under
\* affirmative polarity, and the wrapper still holds the int
C19_Witness ==
    /\ last.c.m = "equal_to_as_strings"
    /\ last.before.value = PyInt(20)
    /\ last.before._determinant
    /\ last.c.other = PyStr(<<"2", "0">>)
    /\ Passed(last.res)
    /\ wrapper.value = PyInt(20)

\* the predicates raises has to decide, in order: the callable raised; what it
\* raised is an instance of exception_type; its text matches the pattern
RaisesPredicates(self, c) ==
    LET call == summer(self.args, self.kwargs) IN
    IF call.exc = "" THEN <<FALSE>>
    ELSE IF c.other = None THEN <<isinstance(call, c.cls)>>
    ELSE <<isinstance(call, c.cls), fullmatch(c.other.s, call.text)>>

\* the exception of a sequence of _ensure(p, True, ...) calls on the wrapper
RECURSIVE EnsureAll(_, _)
EnsureAll(self, ps) ==
    IF Len(ps) = 0 THEN ""
    ELSE LET r == _ensure(self, Head(ps), TRUE, <<>>)
         IN  IF r.exc # "" THEN r.exc ELSE EnsureAll(r.obj, Tail(ps))

\* C20: every matcher of Expression and Callable decides through _ensure.  A
\* matcher of Expression or returns that raised UnmetExpectation passes on
\* the same call under the other polarity; and a raises call that invoked the
\* callable ends as _ensure ends on its predicates under the current
\* polarity, in each branch: nothing raised, wrong kind, pattern mismatch.
C20_DecidedThroughEnsure ==
    /\ (last.c.m \in Matchers \cup {"returns"} /\ Unmet(last.res)) =>
          Passed(Result(Flipped, last.c))
    /\ (last.c.m = "raises" /\ last.res.invoked = 1) =>
          last.res.exc = EnsureAll(last.before, RaisesPredicates(last.before, last.c))

\* C21: and_ sets the polarity to affirmative, returns the wrapper it was read
\* from and changes nothing else of it.  A matcher of Expression chained to
\* what the previous link returned is evaluated on that wrapper: negated
\* right after is_not_, affirmatively right after and_ (it ends as the same
\* call on the affirmative wrapper ends, whatever the polarity before and_),
\* and under the polarity of the previous matcher when chained to a matcher.
C21_AndResetsPolarity ==
    /\ [](last.c.m = "and_" =>
            /\ Passed(last.res)
            /\ last.res.ret = {last.before.id}
            /\ wrapper = [last.before EXCEPT !._determinant = TRUE])
    /\ [][(last.res.ret = {wrapper.id} /\ last'.c.m \in Matchers) =>
            /\ last'.before = wrapper
            /\ last.c.m = "is_not_" => ~last'.before._determinant
            /\ last.c.m = "and_" =>
                  /\ last'.before._determinant
                  /\ last'.res = Result([last.before EXCEPT !._determinant = TRUE],
                                        last'.c)
            /\ last.c.m \in Matchers =>
                  last'.before._determinant = last.before._determinant
         ]_vars

\* C21 witness: and_ read after is_not_ and a matcher, on a wrapper that was
\* still negated, which it left affirmative
C21_Witness ==
    /\ last.c.m = "and_"
    /\ negated > 0
    /\ ~last.before._determinant
    /\ wrapper._determinant
    /\ last.res.ret = {wrapper.id}

====
